---- MODULE Spec2Model ----
(***************************************************************************)
(* A model of the spritz-go library: the Spritz permutation engine, the    *)
(* hash Sum, the cipher.Stream interface (XORKeyStream, newStream), the    *)
(* envelope codec (WrapWriter, WrapReader, readHeader, readV1Header,       *)
(* rehashKey) and the encrnote load/save handlers.                         *)
(*                                                                         *)
(* Bytes are integers 0..255 and all register arithmetic is taken modulo   *)
(* 256.  Byte slices are sequences (1-based), the permutation s is a       *)
(* function on 0..255.                                                     *)
(***************************************************************************)
EXTENDS Integers, Sequences, FiniteSets, TLC

VARIABLES
  \* a cipher session driven through the engine primitives
  session,   \* the cipher state (s, i, j, k, z, a, w)
  xorDst0,   \* dst as passed to the last XORKeyStream
  xorSrc,    \* src as passed to the last XORKeyStream
  xorDst,    \* dst after the last XORKeyStream
  panicked,  \* the last XORKeyStream panicked
  last,      \* the primitive called last
  nops,      \* number of primitives called
  before,    \* the cipher state before the primitive called last
  \* an envelope written by WrapWriter and read back by WrapReader
  memo,      \* results of keySetup and rehashKey computed once (see keySetupOf)
  sinkBytes, \* the bytes in the sink / file
  wcall,     \* the WrapWriter call: arguments, random draws, results
  payload,   \* plaintext written through the returned writer
  tampered,  \* a byte of the file was overwritten after writing
  rcall,     \* the WrapReader call: argument and results
  plain,     \* bytes read through the returned reader
  badErrs,   \* the errors returned so far for failed integrity checks
  \* the encrnote server
  notePw,    \* the global pw
  disk,      \* the files: their bytes, and the directory entries
  reqs,      \* the requests being served: handler, position, locals
  loaded     \* the passwords with which a loadHandler fully succeeded

engineVars == <<session, xorDst0, xorSrc, xorDst, panicked, last, nops, before>>
envelopeVars == <<memo, sinkBytes, wcall, payload, tampered, rcall, plain, badErrs>>
noteVars == <<notePw, disk, reqs, loaded>>
vars == <<engineVars, envelopeVars, noteVars>>

Byte == 0..255

\* ------------------------------------------------------------------------
\* Bit operations on bytes
\* ------------------------------------------------------------------------

RECURSIVE XorBits(_, _, _)
XorBits(x, y, n) ==
  IF n = 0 THEN 0
  ELSE ((x + y) % 2) + 2 * XorBits(x \div 2, y \div 2, n - 1)

\* x ^ y on bytes
Xor(x, y) == XorBits(x, y, 8)

\* element-wise xor of two byte slices of the same length
XorSeq(xs, ys) == [n \in 1..Len(xs) |-> Xor(xs[n], ys[n])]


\* ------------------------------------------------------------------------
\* The permutation engine (state: s, i, j, k, z, a, w)
\* ------------------------------------------------------------------------

\* After(<<v1, ..., vn>>, e) is e, with v1, ..., vn evaluated first and in
\* this order, as the statements of a procedure are: an operator that
\* repeats a step evaluates the state it is given before it starts.
After(values, e) == IF Len(values) >= 0 THEN e ELSE e

\* A function given by a rule, tabulated once
Table(f) == f @@ <<>>

\* (aSwap is a history field, not a register: the greatest value of a at
\* which absorbNibble swapped since initialize)
initialize ==
  [s |-> Table([n \in Byte |-> n]),
   i |-> 0, j |-> 0, k |-> 0, z |-> 0, a |-> 0, w |-> 1, aSwap |-> 0]

swap(st, x, y) ==
  [st EXCEPT !.s = [@ EXCEPT ![x] = st.s[y], ![y] = st.s[x]]]

update(st) ==
  LET i2 == (st.i + st.w) % 256
      j2 == (st.k + st.s[(st.j + st.s[i2]) % 256]) % 256
      k2 == (i2 + st.k + st.s[j2]) % 256
  IN  [st EXCEPT !.i = i2, !.j = j2, !.k = k2,
                 !.s = [@ EXCEPT ![i2] = st.s[j2], ![j2] = st.s[i2]]]

\* r applications of update.  A loop of r >= 2 rounds is taken as eight
\* consecutive loops of (r + n) \div 8 rounds, n = 0..7, which add up to r:
\* t1 .. t8 are the states after each of them, evaluated in this order.
RECURSIVE updateTimes(_, _)
updateTimes(st, r) ==
  IF r = 0 THEN st
  ELSE IF r = 1 THEN update(st)
  ELSE LET t1 == updateTimes(st, r \div 8)
           t2 == updateTimes(t1, (r + 1) \div 8)
           t3 == updateTimes(t2, (r + 2) \div 8)
           t4 == updateTimes(t3, (r + 3) \div 8)
           t5 == updateTimes(t4, (r + 4) \div 8)
           t6 == updateTimes(t5, (r + 5) \div 8)
           t7 == updateTimes(t6, (r + 6) \div 8)
           t8 == updateTimes(t7, (r + 7) \div 8)
       IN  <<t1, t2, t3, t4, t5, t6, t7, t8>>[8]

whip(st, r) == After(<<st>>, [updateTimes(st, r) EXCEPT !.w = (@ + 2) % 256])

\* for v in 0..127: if s[v] > s[255-v] then swap(v, 255-v); the pairs
\* (v, 255-v) are disjoint, so every position is decided by its own pair.
\* crush that stores the smaller value of each pair and leaves the upper
\* half as it was
crushLowerHalf(st) ==
  [st EXCEPT !.s = Table([v \in Byte |->
     IF v < 128 THEN (IF st.s[v] > st.s[255 - v] THEN st.s[255 - v] ELSE st.s[v])
     ELSE st.s[v]])]

crush(st) ==
  [st EXCEPT !.s = Table([v \in Byte |->
      IF v < 128
      THEN (IF st.s[v] > st.s[255 - v] THEN st.s[255 - v] ELSE st.s[v])
      ELSE (IF st.s[255 - v] > st.s[v] THEN st.s[255 - v] ELSE st.s[v])])]

shuffle(st) ==
  [whip(crush(whip(crush(whip(st, 512)), 512)), 512) EXCEPT !.a = 0]

\* the state an absorb works on: shuffled first when a = 128
\* absorbNibble / absorbStop without the test of a
absorbUnready(st) == st

absorbReady(st) == IF st.a = 128 THEN shuffle(st) ELSE st

\* swap(a, 128 + x); a <- a + 1
absorbSwap(st, x) ==
  [swap(st, st.a, (128 + x) % 256) EXCEPT !.a = (st.a + 1) % 256,
                                          !.aSwap = IF st.a > @ THEN st.a ELSE @]

absorbNibble(st, x) == absorbSwap(absorbReady(st), x)

\* absorbByte: low nibble, then high nibble
absorb(st, b) == After(<<st>>, absorbNibble(absorbNibble(st, b % 16), b \div 16))

\* absorb bytes[lo..hi] in order: a range of n >= 2 bytes is taken as eight
\* consecutive ranges, cut at lo + (m * n) \div 8 for m = 1..7
RECURSIVE absorbRange(_, _, _, _)
absorbRange(st, bytes, lo, hi) ==
  IF lo > hi THEN st
  ELSE IF lo = hi THEN absorb(st, bytes[lo])
  ELSE LET n  == hi - lo + 1
           t1 == absorbRange(st, bytes, lo, lo + (n \div 8) - 1)
           t2 == absorbRange(t1, bytes, lo + (n \div 8), lo + ((2 * n) \div 8) - 1)
           t3 == absorbRange(t2, bytes, lo + ((2 * n) \div 8), lo + ((3 * n) \div 8) - 1)
           t4 == absorbRange(t3, bytes, lo + ((3 * n) \div 8), lo + ((4 * n) \div 8) - 1)
           t5 == absorbRange(t4, bytes, lo + ((4 * n) \div 8), lo + ((5 * n) \div 8) - 1)
           t6 == absorbRange(t5, bytes, lo + ((5 * n) \div 8), lo + ((6 * n) \div 8) - 1)
           t7 == absorbRange(t6, bytes, lo + ((6 * n) \div 8), lo + ((7 * n) \div 8) - 1)
           t8 == absorbRange(t7, bytes, lo + ((7 * n) \div 8), hi)
       IN  <<t1, t2, t3, t4, t5, t6, t7, t8>>[8]

absorbMany(st, bytes) == After(<<st, bytes>>, absorbRange(st, bytes, 1, Len(bytes)))

\* a <- a + 1
absorbCount(st) == [st EXCEPT !.a = (@ + 1) % 256]

absorbStop(st) == absorbCount(absorbReady(st))

\* the state a drip works on: shuffled first when a > 0
dripReady(st) == IF st.a > 0 THEN shuffle(st) ELSE st

\* z <- s[j + s[i + s[z + k]]]
output(st) ==
  [st EXCEPT !.z = st.s[(st.j + st.s[(st.i + st.s[(st.z + st.k) % 256]) % 256]) % 256]]

\* drip returns the new state; the byte it yields is the new z
drip(st) == output(update(dripReady(st)))

\* the byte of a drip appended to out
dripInto(out, st) == [st |-> st, out |-> Append(out, st.z)]

\* n more drips on r.st, their bytes appended to r.out (n >= 2 drips are
\* taken as eight consecutive runs of (n + m) \div 8 drips, m = 0..7)
RECURSIVE dripTimes(_, _)
dripTimes(r, n) ==
  IF n = 0 THEN r
  ELSE IF n = 1 THEN dripInto(r.out, drip(r.st))
  ELSE LET t1 == dripTimes(r, n \div 8)
           t2 == dripTimes(t1, (n + 1) \div 8)
           t3 == dripTimes(t2, (n + 2) \div 8)
           t4 == dripTimes(t3, (n + 3) \div 8)
           t5 == dripTimes(t4, (n + 4) \div 8)
           t6 == dripTimes(t5, (n + 5) \div 8)
           t7 == dripTimes(t6, (n + 6) \div 8)
           t8 == dripTimes(t7, (n + 7) \div 8)
       IN  <<t1, t2, t3, t4, t5, t6, t7, t8>>[8]

\* n drips: the state after them and the n bytes they yield
dripMany(st, n) == After(<<st>>, dripTimes([st |-> st, out |-> <<>>], n))

\* drip n times and drop the bytes
skip(st, n) == dripMany(st, n).st

squeezeBytes(st, n) == dripMany(dripReady(st), n)

\* Sum(bits, message): the request size is absorbed as one byte
Sum(bits, message) ==
  squeezeBytes(absorb(absorbStop(absorbMany(initialize, message)), (bits \div 8) % 256),
               bits \div 8).out

\* ------------------------------------------------------------------------
\* cipher.Stream interface
\* ------------------------------------------------------------------------

\* dst after dst[idx] = v ^ drip(s) for the first m bytes v of src, where
\* d holds the state and the bytes of the m drips
xorInto(d, dst, src, m) ==
  [st |-> d.st,
   dst |-> SubSeq([n \in 1..Len(dst) |->
             IF n <= m THEN Xor(src[n], d.out[n]) ELSE dst[n]], 1, Len(dst)),
   panic |-> FALSE]

\* XORKeyStream without the length check: the bytes that fit are written
XORKeyStreamTruncating(st, dst, src) ==
  xorInto(dripMany(dripReady(st), IF Len(dst) < Len(src) THEN Len(dst) ELSE Len(src)),
          dst, src, IF Len(dst) < Len(src) THEN Len(dst) ELSE Len(src))

\* XORKeyStream(dst, src) on cipher state st: the state and dst afterwards,
\* and whether the call panicked.
XORKeyStream(st, dst, src) ==
  IF Len(dst) < Len(src)
  THEN [st |-> st, dst |-> dst, panic |-> TRUE]
  ELSE xorInto(dripMany(dripReady(st), Len(src)), dst, src, Len(src))

\* keystream applied to a slice in place (StreamReader.Read, StreamWriter.Write)
crypt(st, bytes) == XORKeyStream(st, bytes, bytes)

\* one round of the key derivation loop of newStream
keyRound(keyBytes) ==
  dripMany(absorb(absorbStop(absorbMany(initialize, keyBytes)), 128), 128).out

RECURSIVE keyRounds(_, _)
keyRounds(keyBytes, iterations) ==
  After(<<keyBytes>>,
    IF iterations <= 0 THEN keyBytes
    ELSE keyRounds(keyRound(keyBytes), iterations - 1))

\* the fresh state with the iv absorbed, when there is one
absorbIV(iv) ==
  IF Len(iv) > 0 THEN absorbStop(absorbMany(initialize, iv)) ELSE initialize

newStream(password, iv, iterations) ==
  absorbMany(initialize,
    keyRounds(dripMany(absorbMany(absorbIV(iv), Sum(1024, password)), 128).out,
              iterations))

\* ------------------------------------------------------------------------
\* Errors, sources and sinks
\* ------------------------------------------------------------------------

\* An error value is a sequence of strings: nil is the empty sequence, a
\* wrapped error carries the context in front of the cause.
NoErr == <<>>
ErrEOF == <<"EOF">>
ErrUnexpectedEOF == <<"unexpected EOF">>
ErrEntropy == <<"entropy source failed">>
ErrSink == <<"sink write failed">>
ErrBadV1 == <<"Bad password or corrupted file!">>
ErrBadV2 == <<"Bad pw or corrupted file!">>

\* "no writer" / "no reader" (a nil interface value)
None == [none |-> TRUE]

\* io.ReadFull(src, buf) with len(buf) = n on the bytes of data after pos
ReadFull(data, pos, n) ==
  LET avail == Len(data) - pos
  IN  IF avail >= n
      THEN [bytes |-> SubSeq(data, pos + 1, pos + n), pos |-> pos + n, err |-> NoErr]
      ELSE [bytes |-> SubSeq(data, pos + 1, Len(data)), pos |-> Len(data),
            err |-> IF avail <= 0 THEN ErrEOF ELSE ErrUnexpectedEOF]

\* what a read r through a cipher.StreamReader returns, x being the
\* decryption of the bytes that arrived
streamRead(r, x) == [bytes |-> x.dst, pos |-> r.pos, err |-> r.err, st |-> x.st]

\* io.ReadFull through a cipher.StreamReader: the bytes that arrive are
\* decrypted in place, so the keystream advances by their number.
StreamReadFull(cipher, data, pos, n) ==
  streamRead(ReadFull(data, pos, n), crypt(cipher, ReadFull(data, pos, n).bytes))

\* sink.Write(bytes) as the k-th write of a header, on a sink that fails the
\* writes whose number is in failing: a failed write stores nothing.
SinkWrite(sink, bytes, k, failing) ==
  IF k \in failing
  THEN [sink |-> sink, err |-> ErrSink]
  ELSE [sink |-> sink \o bytes, err |-> NoErr]

\* the ciphertext x.dst written as the k-th write
streamWritten(x, sink, k, failing) ==
  [st |-> x.st,
   sink |-> SinkWrite(sink, x.dst, k, failing).sink,
   err |-> SinkWrite(sink, x.dst, k, failing).err]

\* cipher.StreamWriter.Write: encrypt, then write the ciphertext
StreamWrite(cipher, sink, bytes, k, failing) ==
  streamWritten(crypt(cipher, bytes), sink, k, failing)

\* errs.First(context, errors...): nil when every error is nil, otherwise
\* the first one that is not, under the context.
First(context, es) ==
  LET bad == {n \in 1..Len(es) : es[n] # NoErr}
  IN  IF bad = {} THEN NoErr
      ELSE <<context>> \o es[CHOOSE n \in bad : \A m \in bad : n <= m]

\* ------------------------------------------------------------------------
\* Envelope codec
\* ------------------------------------------------------------------------

\* iterations readV1Header passes to newStream
V1Iterations == 2

\* the cipher primed with the hash tmp256 of the password
primed(tmp256) ==
  After(<<tmp256>>,
    [tmp256 |-> tmp256,
     st |-> absorb(absorbStop(absorbMany(initialize, tmp256)), 4)])

\* the hash of the password and the cipher primed with it (the common
\* opening of readHeader and WrapWriter)
keySetup(pw) == primed(Sum(2048, pw))

\* one round of rehashKey, after tmp was refilled from the keystream (d)
rehashAbsorb(d, iv) ==
  After(<<d>>,
    [st |-> absorbMany(absorbStop(absorbMany(d.st, iv)), d.out), tmp |-> d.out])

\* one round of rehashKey
rehashRound(r, iv) == rehashAbsorb(dripMany(r.st, Len(r.tmp)), iv)

\* n rounds (n >= 2 rounds are taken as eight consecutive runs of
\* (n + m) \div 8 rounds, m = 0..7)
RECURSIVE rehashRounds(_, _, _)
rehashRounds(r, iv, n) ==
  IF n = 0 THEN r
  ELSE IF n = 1 THEN rehashRound(r, iv)
  ELSE LET t1 == rehashRounds(r, iv, n \div 8)
           t2 == rehashRounds(t1, iv, (n + 1) \div 8)
           t3 == rehashRounds(t2, iv, (n + 2) \div 8)
           t4 == rehashRounds(t3, iv, (n + 3) \div 8)
           t5 == rehashRounds(t4, iv, (n + 4) \div 8)
           t6 == rehashRounds(t5, iv, (n + 5) \div 8)
           t7 == rehashRounds(t6, iv, (n + 6) \div 8)
           t8 == rehashRounds(t7, iv, (n + 7) \div 8)
       IN  <<t1, t2, t3, t4, t5, t6, t7, t8>>[8]

rehashKey(cipher, iv, tmp) ==
  After(<<cipher, iv, tmp>>, rehashRounds([st |-> cipher, tmp |-> tmp], iv, 20).st)

\* keySetup and rehashKey, looked up in memo where it holds the result
keySetupOf(pw) ==
  IF pw \in DOMAIN memo.keySetup THEN memo.keySetup[pw] ELSE keySetup(pw)

rehashKeyOf(cipher, iv, tmp) ==
  After(<<cipher, iv, tmp>>,
    IF <<cipher, iv, tmp>> \in DOMAIN memo.rehashKey
    THEN memo.rehashKey[<<cipher, iv, tmp>>]
    ELSE rehashKey(cipher, iv, tmp))

\* ---- read path ----

\* what WrapReader returns (rdr, fn, err), with the version of the header
\* it took, the iv it recovered, the cipher state after the key schedule
\* and the integrity checks that failed
ReaderResult(rdr, pos, fn, err, version, iv, key, failed) ==
  [rdr |-> rdr, pos |-> pos, fn |-> fn, err |-> err, version |-> version,
   iv |-> iv, key |-> key, failed |-> failed]

\* the result once the name bytes were read (f)
filenameRead(f, version, iv, key) ==
  After(<<f>>,
    ReaderResult(f.st, f.pos, IF f.err # NoErr THEN <<>> ELSE f.bytes, f.err,
                 version, iv, key, {}))

\* the stored filename, read through the stream when its length is not 0
readFilename(cipher, data, pos, n, version, iv, key) ==
  IF n > 0
  THEN filenameRead(StreamReadFull(cipher, data, pos, n), version, iv, key)
  ELSE ReaderResult(cipher, pos, <<>>, NoErr, version, iv, key, {})

\* readV1Header once the 9 header bytes were read through the stream (h)
readV1Check(data, iv, stream, h) ==
  After(<<h>>,
    IF h.err # NoErr
    THEN ReaderResult(h.st, h.pos, <<>>, h.err, "V1", iv, stream, {})
    ELSE IF Sum(32, SubSeq(h.bytes, 1, 4)) # SubSeq(h.bytes, 5, 8)
    THEN ReaderResult(h.st, h.pos, <<>>, ErrBadV1, "V1", iv, stream, {"V1 checksum"})
    ELSE readFilename(h.st, data, h.pos, h.bytes[9], "V1", iv, stream))

\* readV1Header once the stream was made
readV1Stream(data, pos, iv, stream) ==
  After(<<stream>>,
    readV1Check(data, iv, stream, StreamReadFull(stream, data, pos, 9)))

readV1Header(data, pos, pw) ==
  LET i == ReadFull(data, pos, 4)
  IN  IF i.err # NoErr
      THEN ReaderResult(None, i.pos, <<>>, i.err, "V1", <<>>, None, {})
      ELSE readV1Stream(data, i.pos, i.bytes, newStream(pw, i.bytes, V1Iterations))

\* readHeader once the version, the hash and the name length were read
\* (rem); rbhash is Sum(32, rbytes)
readHeaderCheck(data, iv, key, rbhash, rem) ==
  After(<<rbhash, rem>>,
    IF rem.err # NoErr
    THEN ReaderResult(rem.st, rem.pos, <<>>, rem.err, "V2", iv, key, {})
    ELSE IF rem.bytes[1] # 2 \/ SubSeq(rem.bytes, 2, 5) # rbhash
    THEN ReaderResult(rem.st, rem.pos, <<>>, ErrBadV2, "V2", iv, key,
                      (IF rem.bytes[1] # 2 THEN {"V2 version"} ELSE {}) \cup
                      (IF SubSeq(rem.bytes, 2, 5) # rbhash THEN {"V2 hash"} ELSE {}))
    ELSE readFilename(rem.st, data, rem.pos, rem.bytes[6], "V2", iv, key))

\* readHeader once rbytes were read through the stream (rb)
readHeaderSkip(data, iv, key, rb) ==
  After(<<rb>>,
    IF rb.err # NoErr
    THEN ReaderResult(rb.st, rb.pos, <<>>, rb.err, "V2", iv, key, {})
    ELSE readHeaderCheck(data, iv, key, Sum(32, rb.bytes),
           StreamReadFull(skip(rb.st, rb.bytes[4]), data, rb.pos, 6)))

\* readHeader once the key schedule is done
readHeaderStream(data, pos, iv, key) ==
  After(<<key>>, readHeaderSkip(data, iv, key, StreamReadFull(key, data, pos, 4)))

\* readHeader once the IV was decrypted (x)
readHeaderIV(data, pos, tmp256, x) ==
  After(<<x>>, readHeaderStream(data, pos, x.dst, rehashKeyOf(x.st, x.dst, tmp256)))

\* readHeader once the cipher was primed with the password (k)
readHeaderKeyed(data, pos, k, encIV) ==
  After(<<k>>, readHeaderIV(data, pos, k.tmp256, XORKeyStream(k.st, encIV, encIV)))

readHeader(data, pos, firstByte, pw) ==
  LET i == ReadFull(data, pos, 3)
  IN  IF i.err # NoErr
      THEN ReaderResult(None, i.pos, <<>>, i.err, "V2", <<>>, None, {})
      ELSE readHeaderKeyed(data, i.pos, keySetupOf(pw), <<firstByte>> \o i.bytes)

WrapReader(data, pw) ==
  LET h == ReadFull(data, 0, 1)
  IN  IF h.err # NoErr
      THEN ReaderResult(None, h.pos, <<>>, h.err, "none", <<>>, None, {})
      ELSE IF h.bytes[1] = 1
      THEN readV1Header(data, h.pos, pw)
      ELSE readHeader(data, h.pos, h.bytes[1], pw)

\* ---- write path ----

\* a call of rand.Read on a 4-byte buffer is a record of the bytes in the
\* buffer afterwards and the error; drawFailed is "err1 != nil"
\* a draw whose error is not looked at
drawUnchecked(draw) == FALSE

drawFailed(draw) == draw.err # NoErr

\* WrapWriter without the repair
unrepairedIV(encIV, iv) == [encIV |-> encIV, iv |-> iv]

\* a repair that changes the encrypted IV and keeps the iv
repairedEncIVOnly(encIV, iv) ==
  IF encIV[1] = 1
  THEN [encIV |-> [encIV EXCEPT ![1] = Xor(Xor(encIV[1], iv[1]), (iv[1] + 1) % 256)],
        iv    |-> iv]
  ELSE [encIV |-> encIV, iv |-> iv]

\* the repair of an encrypted IV that would look like a V1 header
repairIV(encIV, iv) ==
  IF encIV[1] = 1
  THEN [encIV |-> [encIV EXCEPT ![1] = Xor(Xor(encIV[1], iv[1]), (iv[1] + 1) % 256)],
        iv    |-> [iv EXCEPT ![1] = (iv[1] + 1) % 256]]
  ELSE [encIV |-> encIV, iv |-> iv]

\* what WrapWriter returns (writer, err), with the sink afterwards, the
\* encIV and the iv it used and the cipher state after the key schedule
WriterResult(writer, err, snk, encIV, iv, key) ==
  [writer |-> writer, err |-> err, sink |-> snk, encIV |-> encIV, iv |-> iv, key |-> key]

\* the return of WrapWriter, w4 being the write of the name
written(err1, err2, err3, w4, key, encIV, iv) ==
  After(<<w4>>,
    WriterResult(w4.st,
                 First("Writing encryption header", <<err1, err2, err3, w4.err>>),
                 w4.sink, encIV, iv, key))

\* the length byte and the name, w3 being the write of the hash
writeName(err1, err2, w3, origfn, failing, key, encIV, iv) ==
  After(<<w3>>,
    written(err1, err2, w3.err,
            StreamWrite(w3.st, w3.sink, <<Len(origfn) % 256>> \o origfn, 5, failing),
            key, encIV, iv))

\* the hash of rbytes, w2 being the write of the version
writeHash(err1, w2, rbhash, origfn, failing, key, encIV, iv) ==
  After(<<w2>>,
    writeName(err1, w2.err, StreamWrite(w2.st, w2.sink, rbhash, 4, failing),
              origfn, failing, key, encIV, iv))

\* the skipped keystream and the version, w1 being the write of rbytes
writeVersion(w1, lastbyte, rbhash, origfn, failing, key, encIV, iv) ==
  After(<<w1, rbhash>>,
    writeHash(w1.err, StreamWrite(skip(w1.st, lastbyte), w1.sink, <<2>>, 3, failing),
              rbhash, origfn, failing, key, encIV, iv))

\* rbytes, the skipped keystream, the version, the hash and the filename,
\* all through the stream writer
writeHeader(cipher, snk, rbytes, origfn, failing, encIV, iv) ==
  writeVersion(StreamWrite(cipher, snk, rbytes, 2, failing), rbytes[4], Sum(32, rbytes),
               origfn, failing, cipher, encIV, iv)

\* WrapWriter from the second draw on, key being the cipher after rehashKey
writeKeyed(snk, fix, key, origfn, rbDraw, failing) ==
  After(<<key>>,
    IF drawFailed(rbDraw)
    THEN WriterResult(None, rbDraw.err, snk, fix.encIV, fix.iv, key)
    ELSE writeHeader(key, snk, rbDraw.bytes, origfn, failing, fix.encIV, fix.iv))

\* WrapWriter from the repair on: sink.Write(encIV), its error dropped, then
\* rehashKey with the iv as repaired
writeEncIV(snk, tmp256, cipher, fix, origfn, rbDraw, failing) ==
  writeKeyed(SinkWrite(snk, fix.encIV, 1, failing).sink, fix,
             rehashKeyOf(cipher, fix.iv, tmp256), origfn, rbDraw, failing)

\* WrapWriter once the iv was encrypted (x)
writeIV(snk, tmp256, x, iv, origfn, rbDraw, failing) ==
  After(<<x>>,
    writeEncIV(snk, tmp256, x.st, repairIV(x.dst, iv), origfn, rbDraw, failing))

\* WrapWriter once the cipher was primed with the password (k)
writeDrawn(snk, k, origfn, ivDraw, rbDraw, failing) ==
  After(<<k>>,
    IF drawFailed(ivDraw)
    THEN WriterResult(None, ivDraw.err, snk, <<>>, <<>>, None)
    ELSE writeIV(snk, k.tmp256, XORKeyStream(k.st, <<0, 0, 0, 0>>, ivDraw.bytes),
                 ivDraw.bytes, origfn, rbDraw, failing))

\* WrapWriter(sink, pw, origfn) where rand.Read yields ivDraw, then rbDraw,
\* and the sink fails the writes numbered in failing (1 is the write of
\* encIV, 2..5 are the writes through the stream writer)
WrapWriter(snk, pw, origfn, ivDraw, rbDraw, failing) ==
  writeDrawn(snk, keySetupOf(pw), origfn, ivDraw, rbDraw, failing)

\* ------------------------------------------------------------------------
\* Inputs of the envelope
\* ------------------------------------------------------------------------

\* "pw" and "x"
Passwords == {<<112, 119>>, <<120>>}

\* What rand.Read leaves in iv.  With the password "pw" the first keystream
\* byte is 204, so the second draw makes encIV[0] = 1 before the repair.
IVDraws == {<<0, 1, 2, 3>>, <<205, 1, 2, 3>>}

\* What rand.Read leaves in rbytes (rbytes[3] keystream bytes are skipped)
RBytesDraws == {<<4, 5, 6, 7>>, <<9, 9, 9, 0>>}

\* a name of 256 bytes: its length does not fit the length byte
LongName == [n \in 1..256 |-> 97]

\* "", "f" and the long name
FileNames == {<<>>, <<102>>, LongName}

PayloadBytes == {104, 105}
MaxPayload == 2

\* a draw that succeeded, and the draw that failed (the buffer stays zero)
Drawn(bytes) == [bytes |-> bytes, err |-> NoErr]
FailedDraw == [bytes |-> <<0, 0, 0, 0>>, err |-> ErrEntropy]

\* the header writes a sink may fail: none, any single one, or all of them
HeaderWrites == 1..5
FailingSets == {{}} \cup {{n} : n \in HeaderWrites} \cup {HeaderWrites}

\* overwriting one byte of the file: byte 0 with 1 (the V1 marker), or the
\* byte of the encrypted version or of the encrypted hash with its complement
TamperOffsets == {0, 8, 9}

\* bound on the number of WrapReader calls on one file
MaxReads == 2

EmptyMemo == [keySetup |-> <<>>, rehashKey |-> <<>>]

\* the arguments of rehashKey in WrapWriter, x being the encryption of draw d
writerArgs(x, d, tmp256) == After(<<x>>, <<x.st, repairIV(x.dst, d).iv, tmp256>>)

\* the arguments of rehashKey in readHeader, x being the decryption of encIV
readerArgs(x, tmp256) == After(<<x>>, <<x.st, x.dst, tmp256>>)

\* the encIV WrapWriter writes for the primed cipher k and draw d
writtenIV(k, d) == repairIV(XORKeyStream(k.st, <<0, 0, 0, 0>>, d).dst, d).encIV

\* memo with keySetup tabulated (setup): rehashKey for the arguments the
\* writer passes and for those a reader of the writer's encIV passes
memoOf(setup, writers, readers, draws) ==
  After(<<setup>>,
    [keySetup |-> setup,
     rehashKey |-> Table([a \in
         {writerArgs(XORKeyStream(setup[pw].st, <<0, 0, 0, 0>>, d), d, setup[pw].tmp256) :
            pw \in writers, d \in draws} \cup
         {readerArgs(XORKeyStream(setup[pw].st, e, e), setup[pw].tmp256) :
            pw \in readers,
            e \in {writtenIV(setup[wpw], d) : wpw \in writers, d \in draws}}
       |-> rehashKey(a[1], a[2], a[3])])])

EnvelopeMemo(writers, readers, draws) ==
  memoOf(Table([pw \in writers \cup readers |-> keySetup(pw)]), writers, readers, draws)

\* ------------------------------------------------------------------------
\* Envelope: state and actions
\* ------------------------------------------------------------------------

NoWriterCall ==
  [called |-> FALSE, pw |-> <<>>, fn |-> <<>>, ivDraw |-> FailedDraw,
   rbDraw |-> FailedDraw, failing |-> {},
   writer |-> None, err |-> NoErr, encIV |-> <<>>, iv |-> <<>>, key |-> None]

NoReaderCall ==
  [n |-> 0, pw |-> <<>>, rdr |-> None, pos |-> 0, fn |-> <<>>, err |-> NoErr,
   version |-> "none", iv |-> <<>>, key |-> None, failed |-> {}]

EnvelopeInit(m) ==
  /\ memo = m
  /\ sinkBytes = <<>>
  /\ wcall = NoWriterCall
  /\ payload = <<>>
  /\ tampered = FALSE
  /\ rcall = NoReaderCall
  /\ plain = <<>>
  /\ badErrs = {}

\* WrapWriter(sink, pw, origfn) on the empty sink
CallWrapWriter(inp) ==
  /\ ~wcall.called
  /\ \E pw \in inp.pw, fn \in inp.fn, ivDraw \in inp.iv, rbDraw \in inp.rbytes,
        failing \in inp.failing :
       \E res \in {WrapWriter(sinkBytes, pw, fn, ivDraw, rbDraw, failing)} :
           /\ wcall' = [called |-> TRUE, pw |-> pw, fn |-> fn, ivDraw |-> ivDraw,
                        rbDraw |-> rbDraw, failing |-> failing,
                        writer |-> res.writer, err |-> res.err, encIV |-> res.encIV,
                        iv |-> res.iv, key |-> res.key]
           /\ sinkBytes' = res.sink
  /\ UNCHANGED <<memo, payload, tampered, rcall, plain, badErrs>>
  /\ UNCHANGED engineVars
  /\ UNCHANGED noteVars

\* writer.Write of one payload byte, by a caller that got no error
WritePayload ==
  /\ wcall.called /\ wcall.err = NoErr /\ wcall.writer # None
  /\ ~tampered /\ rcall.n = 0
  /\ Len(payload) < MaxPayload
  /\ \E b \in PayloadBytes :
       \E x \in {crypt(wcall.writer, <<b>>)} :
           /\ payload' = Append(payload, b)
           /\ sinkBytes' = sinkBytes \o x.dst
           /\ wcall' = [wcall EXCEPT !.writer = x.st]
  /\ UNCHANGED <<memo, tampered, rcall, plain, badErrs>>
  /\ UNCHANGED engineVars
  /\ UNCHANGED noteVars

\* one byte of the written file is overwritten
Tamper ==
  /\ wcall.called /\ ~tampered
  /\ \E off \in TamperOffsets :
       /\ off < Len(sinkBytes)
       /\ sinkBytes' = [sinkBytes EXCEPT ![off + 1] =
                          IF off = 0 THEN 1 ELSE 255 - sinkBytes[off + 1]]
       /\ sinkBytes' # sinkBytes
  /\ tampered' = TRUE
  /\ UNCHANGED <<memo, wcall, payload, rcall, plain, badErrs>>
  /\ UNCHANGED engineVars
  /\ UNCHANGED noteVars

\* WrapReader(src, pw) on the file as it is
CallWrapReader(maxReads) ==
  /\ wcall.called
  /\ rcall.n < maxReads
  /\ \E pw \in Passwords :
       \E res \in {WrapReader(sinkBytes, pw)} :
           /\ rcall' = [n |-> rcall.n + 1, pw |-> pw, rdr |-> res.rdr, pos |-> res.pos,
                        fn |-> res.fn, err |-> res.err, version |-> res.version,
                        iv |-> res.iv, key |-> res.key, failed |-> res.failed]
           /\ badErrs' = IF res.failed # {} THEN badErrs \cup {res.err} ELSE badErrs
  /\ plain' = <<>>
  /\ UNCHANGED <<memo, sinkBytes, wcall, payload, tampered>>
  /\ UNCHANGED engineVars
  /\ UNCHANGED noteVars

\* io.ReadAll on the returned reader
ReadPayload ==
  /\ rcall.n > 0 /\ rcall.err = NoErr /\ rcall.rdr # None
  /\ rcall.pos < Len(sinkBytes)
  /\ \E x \in {StreamReadFull(rcall.rdr, sinkBytes, rcall.pos, Len(sinkBytes) - rcall.pos)} :
         /\ plain' = plain \o x.bytes
         /\ rcall' = [rcall EXCEPT !.rdr = x.st, !.pos = x.pos]
  /\ UNCHANGED <<memo, sinkBytes, wcall, payload, tampered, badErrs>>
  /\ UNCHANGED engineVars
  /\ UNCHANGED noteVars

\* ------------------------------------------------------------------------
\* A cipher session: one action per primitive
\* ------------------------------------------------------------------------

\* bound on the number of primitives called in a session
MaxOps == 2

\* 64 bytes: absorbing them from a = 0 leaves a = 128
Block == [n \in 1..64 |-> (7 * n) % 256]

SwapArgs == {<<0, 255>>, <<3, 3>>}
WhipArgs == {3}
Nibbles == {0, 15}
AbsorbArgs == {165}
ManyArgs == {Block, <<1, 2>>}
DripArgs == {3}

\* dst and src of XORKeyStream: len(dst) equal to, greater and less than
\* len(src), and a dst that can hold nothing
XorArgs ==
  {<<<<9, 9>>, <<1, 2>>>>, <<<<9, 9, 9>>, <<1, 2>>>>, <<<<9, 9>>, <<1, 2, 3>>>>,
   <<<<>>, <<1>>>>}

EngineInit ==
  /\ session = initialize
  /\ xorDst0 = <<>>
  /\ xorSrc = <<>>
  /\ xorDst = <<>>
  /\ panicked = FALSE
  /\ last = "initialize"
  /\ nops = 0
  /\ before = initialize

\* the session after a primitive that is not XORKeyStream
called(name, st) ==
  /\ ~panicked
  /\ nops < MaxOps
  /\ session' = st
  /\ before' = session
  /\ last' = name
  /\ nops' = nops + 1
  /\ UNCHANGED <<xorDst0, xorSrc, xorDst, panicked>>
  /\ UNCHANGED envelopeVars
  /\ UNCHANGED noteVars

Initialize == called("initialize", initialize)
Swap == \E xy \in SwapArgs : called("swap", swap(session, xy[1], xy[2]))
Update == called("update", update(session))
Whip == \E r \in WhipArgs : called("whip", whip(session, r))
Crush == called("crush", crush(session))
Shuffle == called("shuffle", shuffle(session))
AbsorbNibble == \E x \in Nibbles : called("absorbNibble", absorbNibble(session, x))
Absorb == \E b \in AbsorbArgs : called("absorb", absorb(session, b))
AbsorbMany == \E bytes \in ManyArgs : called("absorbMany", absorbMany(session, bytes))
AbsorbStop == called("absorbStop", absorbStop(session))
Drip == called("drip", drip(session))
DripMany == \E n \in DripArgs : called("dripMany", dripMany(session, n).st)
SqueezeBytes == \E n \in DripArgs : called("squeezeBytes", squeezeBytes(session, n).st)

\* newStream(password, iv, iterations): the session becomes the new stream
NewStream ==
  \E pw \in {<<120>>}, iv \in {<<>>, <<0, 1, 2, 3>>} :
     called("newStream", newStream(pw, iv, V1Iterations))

\* session.XORKeyStream(dst, src)
CallXORKeyStream ==
  /\ ~panicked
  /\ nops < MaxOps
  /\ \E ds \in XorArgs :
       \E x \in {XORKeyStream(session, ds[1], ds[2])} :
           /\ session' = x.st
           /\ xorDst' = x.dst
           /\ panicked' = x.panic
           /\ xorDst0' = ds[1]
           /\ xorSrc' = ds[2]
  /\ before' = session
  /\ last' = "XORKeyStream"
  /\ nops' = nops + 1
  /\ UNCHANGED envelopeVars
  /\ UNCHANGED noteVars

\* ------------------------------------------------------------------------
\* encrnote: loadHandler and saveHandler.  net/http serves every request on
\* a goroutine of its own; the global pw is shared without synchronisation.
\* ------------------------------------------------------------------------

\* bound on the number of requests served
MaxRequests == 2
Requests == 1..MaxRequests

\* the request bodies: passwords for /load, a document for /save
LoadBodies == Passwords
SaveBodies == {<<104>>}

ErrBody == <<"body read failed">>
ErrNoFile == <<"no such file or directory">>
ErrNotLoaded == <<"File not properly loaded">>

\* the draws of the WrapWriter call of a save
NoteDraws == [iv |-> {Drawn(<<0, 1, 2, 3>>), FailedDraw}, rbytes |-> {Drawn(<<9, 9, 9, 0>>)}]

\* A disk: files[n] are the bytes of file n, fname and bak the files the
\* names *fname and *fname + ".bak" refer to (0: no such entry).
EmptyDisk == [files |-> <<>>, fname |-> 0, bak |-> 0]
DiskWith(bytes) == [files |-> <<bytes>>, fname |-> 1, bak |-> 0]

\* os.Rename(*fname, *fname + ".bak")
rename(d) == [d EXCEPT !.bak = d.fname, !.fname = 0]

\* os.OpenFile(*fname, O_WRONLY|O_CREATE|O_TRUNC, 0666)
create(d) ==
  IF d.fname = 0
  THEN [d EXCEPT !.files = Append(@, <<>>), !.fname = Len(d.files) + 1]
  ELSE [d EXCEPT !.files[d.fname] = <<>>]

\* a write of bytes at offset off of a file holding old
WriteAt(old, off, bytes) ==
  [n \in 1..(IF Len(old) > off + Len(bytes) THEN Len(old) ELSE off + Len(bytes)) |->
     IF n > off /\ n <= off + Len(bytes) THEN bytes[n - off]
     ELSE IF n <= Len(old) THEN old[n] ELSE 0]

write(d, file, off, bytes) == [d EXCEPT !.files[file] = WriteAt(@, off, bytes)]

\* the file a save with password pw and document doc leaves (w: the
\* result of WrapWriter on the empty file)
savedNote(w, doc) == After(<<w>>, w.sink \o crypt(w.writer, doc).dst)
EncryptedNote(pw, doc, ivDraw, rbDraw) ==
  savedNote(WrapWriter(<<>>, pw, <<>>, ivDraw, rbDraw, {}), doc)

\* a request: the handler serving it, its position (the source line it is
\* about to execute), its locals, its response, and what it observed
Idle ==
  [handler |-> "none", pc |-> "none", body |-> <<>>, locpw |-> <<>>, file |-> 0,
   off |-> 0, writer |-> None, text |-> <<>>, ok |-> FALSE, detail |-> NoErr,
   pwAtEntry |-> <<>>, pwAtReturn |-> <<>>, touched |-> FALSE]

\* the request once the handler returned: the response written, and the
\* value pwNow of the global pw at that moment
replied(req, ok, detail, pwNow) ==
  [req EXCEPT !.pc = "done", !.ok = ok, !.detail = detail, !.pwAtReturn = pwNow]

NoteInit(d) ==
  /\ notePw = <<>>
  /\ disk = d
  /\ reqs = [r \in Requests |-> Idle]
  /\ loaded = {}

\* requests are numbered in the order of their arrival
arrives(r) ==
  /\ reqs[r].handler = "none"
  /\ IF r = 1 THEN TRUE ELSE reqs[r - 1].handler # "none"

\* a request arrives at /load: its body is the password
LoadRequest(r) ==
  /\ arrives(r)
  /\ \E body \in LoadBodies :
       reqs' = [reqs EXCEPT ![r] = [Idle EXCEPT !.handler = "load", !.pc = "L79", !.body = body]]
  /\ UNCHANGED <<notePw, disk, loaded>>
  /\ UNCHANGED engineVars
  /\ UNCHANGED envelopeVars

\* a request arrives at /save: its body is the document
SaveRequest(r) ==
  /\ arrives(r)
  /\ \E body \in SaveBodies :
       reqs' = [reqs EXCEPT ![r] = [Idle EXCEPT !.handler = "save", !.pc = "L119", !.body = body]]
  /\ UNCHANGED <<notePw, disk, loaded>>
  /\ UNCHANGED engineVars
  /\ UNCHANGED envelopeVars

\* pw = ""
LoadReset(r) ==
  /\ reqs[r].pc = "L79"
  /\ notePw' = <<>>
  /\ reqs' = [reqs EXCEPT ![r].pc = "L81"]
  /\ UNCHANGED <<disk, loaded>>
  /\ UNCHANGED engineVars
  /\ UNCHANGED envelopeVars

\* ioutil.ReadAll(r.Body), os.Open(*fname)
LoadOpen(r) ==
  /\ reqs[r].pc = "L81"
  /\ \E bodyErr \in {NoErr, ErrBody} :
       reqs' = [reqs EXCEPT ![r] =
                  IF bodyErr # NoErr THEN replied(@, FALSE, bodyErr, notePw)
                  ELSE IF disk.fname = 0 THEN replied(@, FALSE, ErrNoFile, notePw)
                  ELSE [@ EXCEPT !.locpw = reqs[r].body, !.file = disk.fname, !.pc = "L95"]]
  /\ UNCHANGED <<notePw, disk, loaded>>
  /\ UNCHANGED engineVars
  /\ UNCHANGED envelopeVars

\* the document read through the reader WrapReader returned
decryptedNote(req, data, res) ==
  After(<<res>>,
    IF res.err # NoErr THEN replied(req, FALSE, res.err, notePw)
    ELSE [req EXCEPT !.pc = "L113",
                     !.text = StreamReadFull(res.rdr, data, res.pos, Len(data) - res.pos).bytes])

\* spritz.WrapReader(src, locpw), ioutil.ReadAll(decrypted), json.Marshal
LoadDecrypt(r) ==
  /\ reqs[r].pc = "L95"
  /\ reqs' = [reqs EXCEPT ![r] =
                decryptedNote(@, disk.files[@.file], WrapReader(disk.files[@.file], @.locpw))]
  /\ UNCHANGED <<notePw, disk, loaded>>
  /\ UNCHANGED engineVars
  /\ UNCHANGED envelopeVars

\* pw = locpw, w.Write(respjson)
LoadCommit(r) ==
  /\ reqs[r].pc = "L113"
  /\ notePw' = reqs[r].locpw
  /\ loaded' = loaded \cup {reqs[r].locpw}
  /\ reqs' = [reqs EXCEPT ![r] = replied(@, TRUE, NoErr, reqs[r].locpw)]
  /\ UNCHANGED disk
  /\ UNCHANGED engineVars
  /\ UNCHANGED envelopeVars

\* if len(pw) == 0 { writeErr(...); return }
SaveCheck(r) ==
  /\ reqs[r].pc = "L119"
  /\ reqs' = [reqs EXCEPT ![r] =
                IF Len(notePw) = 0
                THEN replied([@ EXCEPT !.pwAtEntry = notePw], FALSE, ErrNotLoaded, notePw)
                ELSE [@ EXCEPT !.pwAtEntry = notePw, !.pc = "L124"]]
  /\ UNCHANGED <<notePw, disk, loaded>>
  /\ UNCHANGED engineVars
  /\ UNCHANGED envelopeVars

\* ioutil.ReadAll(r.Body), os.Rename(*fname, *fname + ".bak")
SaveRename(r) ==
  /\ reqs[r].pc = "L124"
  /\ \E bodyErr \in {NoErr, ErrBody} :
       IF bodyErr # NoErr
       THEN /\ reqs' = [reqs EXCEPT ![r] = replied(@, FALSE, bodyErr, notePw)]
            /\ disk' = disk
       ELSE IF disk.fname = 0
       THEN /\ reqs' = [reqs EXCEPT ![r] = replied(@, FALSE, ErrNoFile, notePw)]
            /\ disk' = disk
       ELSE /\ reqs' = [reqs EXCEPT ![r] = [@ EXCEPT !.touched = TRUE, !.pc = "L135"]]
            /\ disk' = rename(disk)
  /\ UNCHANGED <<notePw, loaded>>
  /\ UNCHANGED engineVars
  /\ UNCHANGED envelopeVars

\* os.OpenFile(*fname, ...)
SaveCreate(r) ==
  /\ reqs[r].pc = "L135"
  /\ disk' = create(disk)
  /\ reqs' = [reqs EXCEPT ![r] = [@ EXCEPT !.file = create(disk).fname, !.off = 0, !.pc = "L142"]]
  /\ UNCHANGED <<notePw, loaded>>
  /\ UNCHANGED engineVars
  /\ UNCHANGED envelopeVars

\* spritz.WrapWriter(outFile, pw, ""): pw is read again here
SaveWrap(r) ==
  /\ reqs[r].pc = "L142"
  /\ \E ivDraw \in NoteDraws.iv, rbDraw \in NoteDraws.rbytes :
       \E res \in {WrapWriter(<<>>, notePw, <<>>, ivDraw, rbDraw, {})} :
           /\ disk' = write(disk, reqs[r].file, reqs[r].off, res.sink)
           /\ reqs' = [reqs EXCEPT ![r] =
                         IF res.err # NoErr THEN replied(@, FALSE, res.err, notePw)
                         ELSE [@ EXCEPT !.writer = res.writer, !.off = @ + Len(res.sink),
                                        !.pc = "L148"]]
  /\ UNCHANGED <<notePw, loaded>>
  /\ UNCHANGED engineVars
  /\ UNCHANGED envelopeVars

\* writer.Write(docbytes), json.Marshal, w.Write(respjson)
SaveWrite(r) ==
  /\ reqs[r].pc = "L148"
  /\ disk' = write(disk, reqs[r].file, reqs[r].off, crypt(reqs[r].writer, reqs[r].body).dst)
  /\ reqs' = [reqs EXCEPT ![r] = replied(@, TRUE, NoErr, notePw)]
  /\ UNCHANGED <<notePw, loaded>>
  /\ UNCHANGED engineVars
  /\ UNCHANGED envelopeVars

\* ------------------------------------------------------------------------
\* Specifications
\* ------------------------------------------------------------------------

GoodDraws == [iv |-> {Drawn(d) : d \in IVDraws}, rbytes |-> {Drawn(d) : d \in RBytesDraws}]

\* a caller of WrapWriter on a sink that takes every write
EnvelopeInputs ==
  [pw |-> Passwords, fn |-> FileNames, iv |-> GoodDraws.iv, rbytes |-> GoodDraws.rbytes,
   failing |-> {{}}]

\* the same, with draws and writes that may fail
FailureInputs ==
  [pw |-> {<<112, 119>>}, fn |-> {<<>>, <<102>>},
   iv |-> GoodDraws.iv \cup {FailedDraw}, rbytes |-> GoodDraws.rbytes \cup {FailedDraw},
   failing |-> FailingSets]

\* the writer of a file that is tampered with
TamperInputs ==
  [pw |-> {<<112, 119>>}, fn |-> {<<>>, <<102>>}, iv |-> {Drawn(<<0, 1, 2, 3>>)},
   rbytes |-> GoodDraws.rbytes, failing |-> {{}}]

\* a cipher session
InitEngine == EngineInit /\ EnvelopeInit(EmptyMemo) /\ NoteInit(EmptyDisk)
NextEngine ==
  \/ Initialize \/ Swap \/ Update \/ Whip \/ Crush \/ Shuffle
  \/ AbsorbNibble \/ Absorb \/ AbsorbMany \/ AbsorbStop
  \/ Drip \/ DripMany \/ SqueezeBytes
  \/ NewStream
  \/ CallXORKeyStream
SpecEngine == InitEngine /\ [][NextEngine]_vars

\* writing an envelope and reading it back
InitEnvelope ==
  /\ EngineInit
  /\ EnvelopeInit(EnvelopeMemo(Passwords, Passwords, IVDraws))
  /\ NoteInit(EmptyDisk)
NextEnvelope ==
  \/ CallWrapWriter(EnvelopeInputs)
  \/ WritePayload
  \/ CallWrapReader(1)
  \/ ReadPayload
SpecEnvelope == InitEnvelope /\ [][NextEnvelope]_vars

\* writing an envelope with an entropy source and a sink that may fail
InitFailure ==
  /\ EngineInit
  /\ EnvelopeInit(EnvelopeMemo(FailureInputs.pw, {}, {d.bytes : d \in FailureInputs.iv}))
  /\ NoteInit(EmptyDisk)
NextFailure ==
  \/ CallWrapWriter(FailureInputs)
  \/ WritePayload
SpecFailure == InitFailure /\ [][NextFailure]_vars

\* reading an envelope that was tampered with, or with another password
InitTamper ==
  /\ EngineInit
  /\ EnvelopeInit(EnvelopeMemo(TamperInputs.pw, Passwords, {<<0, 1, 2, 3>>}))
  /\ NoteInit(EmptyDisk)
NextTamper ==
  \/ CallWrapWriter(TamperInputs)
  \/ Tamper
  \/ CallWrapReader(MaxReads)
SpecTamper == InitTamper /\ [][NextTamper]_vars

\* the encrnote server, its file written with the password "pw"
InitNote ==
  /\ EngineInit
  /\ EnvelopeInit(EnvelopeMemo({<<112, 119>>}, Passwords, {<<0, 1, 2, 3>>}))
  /\ NoteInit(DiskWith(EncryptedNote(<<112, 119>>, <<105>>,
                                     Drawn(<<0, 1, 2, 3>>), Drawn(<<4, 5, 6, 7>>))))
NextNote ==
  \E r \in Requests :
    \/ LoadRequest(r) \/ LoadReset(r) \/ LoadOpen(r) \/ LoadDecrypt(r) \/ LoadCommit(r)
    \/ SaveRequest(r) \/ SaveCheck(r) \/ SaveRename(r) \/ SaveCreate(r)
    \/ SaveWrap(r) \/ SaveWrite(r)
SpecNote == InitNote /\ [][NextNote]_vars

\* ------------------------------------------------------------------------
\* Properties
\* ------------------------------------------------------------------------

\* C1: what WrapWriter and its writer wrote, read by WrapReader with the
\* same password, gives no error, the file name that was passed to
\* WrapWriter and, once everything is read, the payload that was written.
C1_RoundTrip ==
  (rcall.n > 0 /\ rcall.pw = wcall.pw) =>
     /\ rcall.err = NoErr
     /\ rcall.fn = wcall.fn
     /\ (rcall.pos = Len(sinkBytes) => plain = payload)

\* C2: the first byte WrapWriter writes to the sink is never 1, and
\* WrapReader on what WrapWriter wrote takes the V2 reader.
C2_NeverV1 ==
  /\ (wcall.called => (wcall.encIV[1] # 1 /\ sinkBytes[1] # 1))
  /\ (rcall.n > 0 => rcall.version = "V2")

\* the draw was repaired, and the file was read
C2_RepairedAndRead ==
  /\ rcall.n > 0
  /\ rcall.version = "V2"
  /\ wcall.iv # wcall.ivDraw.bytes

\* C3: with the same password, the iv readHeader recovers is the iv
\* WrapWriter passed to rehashKey (perturbed or not), and the cipher states
\* after rehashKey are equal.
C3_SameKey ==
  (rcall.n > 0 /\ rcall.pw = wcall.pw) =>
     /\ rcall.iv = wcall.iv
     /\ rcall.key = wcall.key

\* the reader recovered a perturbed iv
C3_PerturbedRecovered ==
  /\ rcall.n > 0
  /\ rcall.pw = wcall.pw
  /\ wcall.ivDraw.bytes[1] = 205
  /\ rcall.iv[1] = 206
  /\ rcall.key # None

\* C4: every failed integrity check (V1 checksum, V2 version byte, V2 hash
\* of rbytes) gives one and the same error, and no file name.
C4_OneError ==
  /\ \A e1 \in badErrs : \A e2 \in badErrs : e1 = e2
  /\ (rcall.failed # {} => rcall.fn = <<>>)

\* C5: XORKeyStream with len(dst) < len(src) panics, with dst and the
\* cipher state as they were before the call.
C5_ShortDstRefused ==
  (last = "XORKeyStream" /\ Len(xorDst0) < Len(xorSrc)) =>
     /\ panicked
     /\ xorDst = xorDst0
     /\ session = before

\* a call with a short, non-empty dst on a cipher that had absorbed
C5_Refused ==
  /\ panicked
  /\ Len(xorDst0) > 0
  /\ before.a > 0

\* C6: when a draw fails, WrapWriter returns that error and no writer; the
\* sink holds nothing when it was the iv draw, and at most the encrypted IV
\* (written before the draw) when it was the rbytes draw.
C6_DrawFailure ==
  wcall.called =>
     /\ (wcall.ivDraw.err # NoErr =>
           /\ wcall.writer = None
           /\ wcall.err = wcall.ivDraw.err
           /\ sinkBytes = <<>>)
     /\ ((wcall.ivDraw.err = NoErr /\ wcall.rbDraw.err # NoErr) =>
           /\ wcall.writer = None
           /\ wcall.err = wcall.rbDraw.err
           /\ sinkBytes = (IF 1 \in wcall.failing THEN <<>> ELSE wcall.encIV))

\* the rbytes draw failed after the encrypted IV was written
C6_SecondDrawFailed ==
  /\ wcall.called
  /\ wcall.ivDraw.err = NoErr
  /\ wcall.rbDraw.err # NoErr
  /\ Len(sinkBytes) = 4
  /\ wcall.writer = None

\* C7: the array s of the session is a permutation of 0..255 after every
\* primitive.
C7_Permutation ==
  /\ DOMAIN session.s = Byte
  /\ {session.s[n] : n \in Byte} = Byte

\* a shuffle has rearranged s
C7_Shuffled ==
  /\ last = "shuffle"
  /\ session.s # before.s
  /\ nops = MaxOps

\* C8: when a write of the header to the sink fails (the encrypted IV,
\* rbytes, the version, the hash or the name), WrapWriter returns an error.
C8_WriteFailureReported ==
  LET attempted == IF wcall.ivDraw.err # NoErr THEN {}
                   ELSE IF wcall.rbDraw.err # NoErr THEN {1}
                   ELSE HeaderWrites
  IN  (wcall.called /\ wcall.failing \cap attempted # {}) => wcall.err # NoErr

\* C9: 0 <= a <= 128 after every primitive, and absorbNibble swaps with
\* a <= 127.
C9_ARange ==
  /\ session.a \in 0..128
  /\ session.aSwap \in 0..127

\* absorbNibble was called with a = 128
C9_NibbleAtLimit ==
  /\ last = "absorbNibble"
  /\ before.a = 128
  /\ session.a = 1

\* C10: the global pw is empty or a password with which a loadHandler
\* fully succeeded; when a loadHandler returns with a failure, pw is empty;
\* a saveHandler that finds pw empty answers "File not properly loaded"
\* and has neither renamed nor written a file.
C10_PwDiscipline ==
  /\ (notePw = <<>> \/ notePw \in loaded)
  /\ \A r \in Requests :
       (reqs[r].handler = "load" /\ reqs[r].pc = "done" /\ ~reqs[r].ok) =>
          reqs[r].pwAtReturn = <<>>
  /\ \A r \in Requests :
       (reqs[r].handler = "save" /\ reqs[r].pc # "L119" /\ reqs[r].pwAtEntry = <<>>) =>
          /\ reqs[r].pc = "done"
          /\ reqs[r].detail = ErrNotLoaded
          /\ ~reqs[r].touched

====
